---- MODULE Spec2Model ----
(***************************************************************************)
(* Model of the DexPay verification toolkit: the Fetcher (1_fetch_data.js) *)
(* -- two cursor-paginated collectors run one after the other by main,     *)
(* which then writes one snapshot file -- and the mirror node it queries.  *)
(*                                                                         *)
(* Strings that the code inspects or builds (URLs, next links) are         *)
(* sequences of tokens, so that startsWith and concatenation are computed. *)
(***************************************************************************)
EXTENDS Integers, Sequences, FiniteSets, TLC

\* ------------------------------------------------------------------ bounds
\* Requests one run of the Fetcher may issue (the loops themselves are unbounded).
MaxRequests == 3
\* Largest page the mirror node serves (limit=100 in the queries).
MaxPageLen == 2
\* Records per stream in a snapshot given to the Analyzer.
MaxRecords == 2

\* --------------------------------------------------------------- constants
CONTRACT_ID == "0.0.9392720"
CONTRACT_EVM_ADDRESS == "0x00000000000000000000000000000000008f5690"
DATE_START == 1759276800
DATE_END == 1764547200
SLEEP_MS == 200

\* "https://mainnet-public.mirrornode.hedera.com", the prefix of line 79
MIRROR_HOST == <<"http", "s://mainnet-public.mirrornode.hedera.com">>
MIRROR_NODE_BASE == MIRROR_HOST \o <<"/api/v1">>
FILENAME == "dexpay_contract_calls_2025.json"

\* The two collectors: fetchContractResults and fetchTransactionsFromContract.
Streams == {"results", "transactions"}

\* The resource of each collector, up to its query string.
Resource(s) ==
    IF s = "results"
    THEN <<"/contracts/", CONTRACT_ID, "/results?">>
    ELSE <<"/transactions?account.id=", CONTRACT_ID, "&">>

WindowQuery_EndInclusive ==
    <<"timestamp=gte:", ToString(DATE_START), "&timestamp=lte:", ToString(DATE_END)>>

\* The window bounds as they appear in a query string.
WindowQuery ==
    <<"timestamp=gte:", ToString(DATE_START), "&timestamp=lt:", ToString(DATE_END)>>

\* The first URL of a collector (lines 44 and 115).
FirstUrl(s) ==
    MIRROR_NODE_BASE \o Resource(s) \o WindowQuery \o <<"&limit=100&order=asc">>

\* No URL: null, undefined and "" are all falsy for `while (url)` and `links?.next`.
NoUrl == <<>>

\* nextLink.startsWith('http')
StartsWithHttp(nextLink) == Len(nextLink) > 0 /\ nextLink[1] = "http"

ResolveNext_AlwaysPrefix(nextLink) == MIRROR_HOST \o nextLink

\* Lines 77-79 / 144-146: an absolute link is used as is, a relative one is
\* prefixed with the mirror host.
ResolveNext(nextLink) ==
    IF StartsWithHttp(nextLink) THEN nextLink ELSE MIRROR_HOST \o nextLink

\* ------------------------------------------------------------ mirror node
\* Records carry the consensus timestamp that orders them; the cursor of a
\* page is the timestamp of the last record before it.
MaxTs == MaxRequests * MaxPageLen

\* The relative next link the mirror node gives for the records after cursor c.
RelLink(s, c) ==
    <<"/api/v1">> \o Resource(s)
        \o <<"limit=100&order=asc&timestamp=lt:", ToString(DATE_END),
             "&timestamp=gt:", ToString(c)>>

\* The URL of the page after cursor c (cursor 0: the window's first page).
PageUrl(s, c) == IF c = 0 THEN FirstUrl(s) ELSE MIRROR_HOST \o RelLink(s, c)

Pages == Streams \X (0..MaxTs)

\* Whether the mirror node knows the URL, and which page it names.
KnownUrl(u) == \E p \in Pages : PageUrl(p[1], p[2]) = u
PageOf(u) == CHOOSE p \in Pages : PageUrl(p[1], p[2]) = u

\* The n records after cursor c of stream s, in ascending order.
Records(s, c, n) == [j \in 1..n |-> <<s, c + j>>]

\* What the mirror node may answer.  kind: "neterr" (fetch rejects), "status"
\* (response.ok is false), "badjson" (response.json() rejects), "ok".
\* n: the length of the item list, -1 when the body has no such field.
\* links: "none" (no links object), "null" (links.next is null), "rel" or
\* "abs" (a relative or an absolute next link).
Failure(kind) == [kind |-> kind, n |-> 0, links |-> "none"]
Failures == {Failure(k) : k \in {"neterr", "status", "badjson"}}
OkAnswers ==
    [kind : {"ok"}, n : {-1, 0}, links : {"none", "rel"}]
      \cup [kind : {"ok"}, n : 1..MaxPageLen, links : {"none", "null", "rel", "abs"}]
Answers(u) == IF KnownUrl(u) THEN Failures \cup OkAnswers ELSE {Failure("status")}

\* The parsed body of an ok answer to u: data[field] and data.links?.next.
BodyItems(u, r) == IF r.n < 1 THEN <<>> ELSE Records(PageOf(u)[1], PageOf(u)[2], r.n)
BodyNext(u, r) ==
    LET s == PageOf(u)[1]
        c == PageOf(u)[2] + (IF r.n < 1 THEN 1 ELSE r.n)
    IN  CASE r.links = "rel" -> RelLink(s, c)
          [] r.links = "abs" -> MIRROR_HOST \o RelLink(s, c)
          [] OTHER -> NoUrl

\* ------------------------------------------------------------------ state
VARIABLES
    run,              \* "first" or "second" invocation of the script
    mpc,              \* where main is
    cpc,              \* where each collector is
    url,              \* each collector's current URL
    pageCount,        \* each collector's page counter
    allResults,       \* accumulator of fetchContractResults
    allTransactions,  \* accumulator of fetchTransactionsFromContract
    contractResults,  \* main: what fetchContractResults returned
    transactions,     \* main: what fetchTransactionsFromContract returned
    allData,          \* main: the snapshot object
    file,             \* the snapshot file on disk
    exitCode,         \* the exit status, once main is "exited"
    inflight,         \* requests issued and not yet answered
    written,          \* every content the snapshot file was given, oldest first
    events,           \* what this run did, in order (requests, answers, sleeps, output)
    now,              \* wall clock, ms
    api,              \* the mirror node: what it answers to each URL asked so far
    apc,              \* where the Analyzer is
    scanned,          \* Analyzer: records of the current stream already looked at
    walletSet,        \* Analyzer: the unique counterparties found so far
    skipped,          \* Analyzer: records without a counterparty
    walletReport      \* Analyzer: the report it writes

fetcherVars == <<run, mpc, cpc, url, pageCount, allResults, allTransactions,
                 contractResults, transactions, allData, file, written, exitCode,
                 inflight, events, now, api>>

analyzerVars == <<apc, scanned, walletSet, skipped, walletReport>>

vars == <<fetcherVars, analyzerVars>>

Snapshot_SwappedCounts(cr, tx, at) ==
    [metadata |-> [contractId |-> CONTRACT_ID,
                   contractEvmAddress |-> CONTRACT_EVM_ADDRESS,
                   period |-> "2025",
                   startTimestamp |-> DATE_START,
                   endTimestamp |-> DATE_END,
                   fetchedAt |-> at,
                   totalContractResults |-> Len(tx),
                   totalTransactions |-> Len(cr)],
     contractResults |-> cr,
     transactions |-> tx]

\* The snapshot object of lines 189-202.
Snapshot(cr, tx, at) ==
    [metadata |-> [contractId |-> CONTRACT_ID,
                   contractEvmAddress |-> CONTRACT_EVM_ADDRESS,
                   period |-> "2025",
                   startTimestamp |-> DATE_START,
                   endTimestamp |-> DATE_END,
                   fetchedAt |-> at,
                   totalContractResults |-> Len(cr),
                   totalTransactions |-> Len(tx)],
     contractResults |-> cr,
     transactions |-> tx]

NoData == Snapshot(<<>>, <<>>, 0)
NoFile == [state |-> "absent", data |-> NoData]

NoReport == [uniqueWallets |-> 0, inboundCalls |-> 0, outboundTxns |-> 0,
             period |-> "2025", wallets |-> {}]

AnalyzerIdle ==
    /\ apc = "idle"
    /\ scanned = 0
    /\ walletSet = {}
    /\ skipped = 0
    /\ walletReport = NoReport

Init ==
    /\ AnalyzerIdle
    /\ run = "first"
    /\ mpc = "shell"
    /\ cpc = [s \in Streams |-> "idle"]
    /\ url = [s \in Streams |-> NoUrl]
    /\ pageCount = [s \in Streams |-> 0]
    /\ allResults = <<>>
    /\ allTransactions = <<>>
    /\ contractResults = <<>>
    /\ transactions = <<>>
    /\ allData = NoData
    /\ file = NoFile
    /\ written = <<>>
    /\ exitCode = 0
    /\ inflight = {}
    /\ events = <<>>
    /\ now = 0
    /\ api = <<>>


\* ------------------------------------------------------------- collectors
Acc(s) == IF s = "results" THEN allResults ELSE allTransactions

SetAcc(s, v) ==
    /\ allResults' = IF s = "results" THEN v ELSE allResults
    /\ allTransactions' = IF s = "transactions" THEN v ELSE allTransactions

Log(e) == events' = Append(events, e)

RequestsIssued == pageCount["results"] + pageCount["transactions"]

\* What the mirror node answers to u: what it answered before, if it was asked.
ApiAnswer(u) == IF u \in DOMAIN api THEN {api[u]} ELSE Answers(u)

Call_ResumesFromFile(s) ==
    /\ SetAcc(s, IF file.state # "complete" THEN <<>>
                 ELSE IF s = "results" THEN file.data.contractResults
                 ELSE file.data.transactions)
    /\ url' = [url EXCEPT ![s] = FirstUrl(s)]
    /\ pageCount' = [pageCount EXCEPT ![s] = 0]
    /\ cpc' = [cpc EXCEPT ![s] = "loop"]

\* Lines 36-46 / 108-117: the collector is called and sets up its locals.
Call(s) ==
    /\ SetAcc(s, <<>>)
    /\ url' = [url EXCEPT ![s] = FirstUrl(s)]
    /\ pageCount' = [pageCount EXCEPT ![s] = 0]
    /\ cpc' = [cpc EXCEPT ![s] = "loop"]

\* Lines 51-56 / 120-125: the loop test passes and the page is requested.
Fetch(s) ==
    /\ cpc[s] = "loop"
    /\ url[s] # NoUrl
    /\ RequestsIssued < MaxRequests
    /\ pageCount' = [pageCount EXCEPT ![s] = @ + 1]
    /\ inflight' = inflight \cup {<<s, url[s]>>}
    /\ cpc' = [cpc EXCEPT ![s] = "fetch"]
    /\ Log(<<"request", s, url[s]>>)
    /\ UNCHANGED analyzerVars
    /\ UNCHANGED <<run, mpc, url, allResults, allTransactions, contractResults,
                   transactions, allData, file, written, exitCode, now, api>>

LoopExit_PageCap(s) ==
    /\ cpc[s] = "loop"
    /\ url[s] = NoUrl \/ pageCount[s] >= 2
    /\ cpc' = [cpc EXCEPT ![s] = "returned"]
    /\ UNCHANGED analyzerVars
    /\ UNCHANGED <<run, mpc, url, pageCount, allResults, allTransactions,
                   contractResults, transactions, allData, file, written, exitCode,
                   inflight, events, now, api>>

\* Lines 51, 98-99 / 120, 165-166: url is null, the loop ends, the collector returns.
LoopExit(s) ==
    /\ cpc[s] = "loop"
    /\ url[s] = NoUrl
    /\ cpc' = [cpc EXCEPT ![s] = "returned"]
    /\ UNCHANGED analyzerVars
    /\ UNCHANGED <<run, mpc, url, pageCount, allResults, allTransactions,
                   contractResults, transactions, allData, file, written, exitCode,
                   inflight, events, now, api>>

\* The outstanding request of collector s is answered with r.
Answered(s, r) ==
    /\ cpc[s] = "fetch"
    /\ r \in ApiAnswer(url[s])
    /\ inflight' = inflight \ {<<s, url[s]>>}
    /\ api' = IF url[s] \in DOMAIN api THEN api ELSE api @@ (url[s] :> r)

Break_Rethrow(s, why) ==
    /\ cpc' = [cpc EXCEPT ![s] = "returned"]
    /\ mpc' = "exited"
    /\ exitCode' = 1
    /\ Log(<<"fatal", "main", why>>)
    /\ UNCHANGED analyzerVars
    /\ UNCHANGED <<run, url, pageCount, allResults, allTransactions,
                   contractResults, transactions, allData, file, written, now>>

\* A `break` (or the catch block's break): the loop is left and the collector
\* returns what it has (lines 98-99 / 165-166).
Break(s, why) ==
    /\ cpc' = [cpc EXCEPT ![s] = "returned"]
    /\ Log(<<"answer", s, why>>)
    /\ UNCHANGED analyzerVars
    /\ UNCHANGED <<run, mpc, url, pageCount, allResults, allTransactions,
                   contractResults, transactions, allData, file, written, exitCode, now>>

FetchRejects_Uncaught(s) ==
    \E r \in Failures :
        /\ r.kind = "neterr"
        /\ Answered(s, r)
        /\ Break_Rethrow(s, "neterr")

\* Lines 56, 92-95 / 125, 159-162: fetch rejects; the catch block logs and breaks.
FetchRejects(s) ==
    \E r \in Failures :
        /\ r.kind = "neterr"
        /\ Answered(s, r)
        /\ Break(s, "neterr")

HttpError_Retry(s) ==
    \E r \in Failures :
        /\ r.kind = "status"
        /\ Answered(s, r)
        /\ cpc' = [cpc EXCEPT ![s] = "loop"]
        /\ Log(<<"answer", s, "status">>)
        /\ UNCHANGED analyzerVars
        /\ UNCHANGED <<run, mpc, url, pageCount, allResults, allTransactions,
                       contractResults, transactions, allData, file, written,
                       exitCode, now>>

\* Lines 57-60 / 126-129: a non-success status.
HttpError(s) ==
    \E r \in Failures :
        /\ r.kind = "status"
        /\ Answered(s, r)
        /\ Break(s, "status")

JsonRejects_Uncaught(s) ==
    \E r \in Failures :
        /\ r.kind = "badjson"
        /\ Answered(s, r)
        /\ Break_Rethrow(s, "badjson")

\* Lines 62, 92-95 / 131, 159-162: the body does not parse; the catch block breaks.
JsonRejects(s) ==
    \E r \in Failures :
        /\ r.kind = "badjson"
        /\ Answered(s, r)
        /\ Break(s, "badjson")

NoMoreResults_FollowsLink(s) ==
    \E r \in OkAnswers :
        /\ r.n < 1
        /\ Answered(s, r)
        /\ url' = [url EXCEPT ![s] = BodyNext(url[s], r)]
        /\ cpc' = [cpc EXCEPT ![s] = IF BodyNext(url[s], r) = NoUrl
                                     THEN "returned" ELSE "sleep"]
        /\ Log(<<"answer", s, "empty">>)
        /\ UNCHANGED analyzerVars
        /\ UNCHANGED <<run, mpc, pageCount, allResults, allTransactions,
                       contractResults, transactions, allData, file, written,
                       exitCode, now>>

NoMoreResults_Throws(s) ==
    \E r \in OkAnswers :
        /\ r.n < 1
        /\ Answered(s, r)
        /\ Break_Rethrow(s, "empty")

\* Lines 65-68 / 134-137: no item list, or an empty one.
NoMoreResults(s) ==
    \E r \in OkAnswers :
        /\ r.n < 1
        /\ Answered(s, r)
        /\ Break(s, "empty")

Push_Overwrite(acc, items) == items

Push_Prepend(acc, items) == items \o acc

\* Line 71 / 139: allResults.push(...data.results)
Push(acc, items) == acc \o items

\* Lines 75-88 / 142-155: the next URL, or null when there is no next link.
NextUrl(nextLink) == IF nextLink # NoUrl THEN ResolveNext(nextLink) ELSE NoUrl

\* Lines 62-91 / 131-158: a page with items is appended, the URL is advanced
\* and the collector goes to sleep.
PageReceived(s) ==
    \E r \in OkAnswers :
        /\ r.n >= 1
        /\ Answered(s, r)
        /\ SetAcc(s, Push(Acc(s), BodyItems(url[s], r)))
        /\ url' = [url EXCEPT ![s] = NextUrl(BodyNext(url[s], r))]
        /\ cpc' = [cpc EXCEPT ![s] = "sleep"]
        /\ Log(<<"answer", s, "page">>)
        /\ UNCHANGED analyzerVars
        /\ UNCHANGED <<run, mpc, pageCount, contractResults, transactions,
                       allData, file, written, exitCode, now>>

\* Line 91 / 158: await sleep(200) completes and the loop goes round.
SleepDone(s) ==
    /\ cpc[s] = "sleep"
    /\ cpc' = [cpc EXCEPT ![s] = "loop"]
    /\ now' = now + SLEEP_MS
    /\ Log(<<"sleep", s, "done">>)
    /\ UNCHANGED analyzerVars
    /\ UNCHANGED <<run, mpc, url, pageCount, allResults, allTransactions,
                   contractResults, transactions, allData, file, written, exitCode,
                   inflight, api>>

Collector(s) ==
    \/ Fetch(s)
    \/ LoopExit(s)
    \/ FetchRejects(s)
    \/ HttpError(s)
    \/ JsonRejects(s)
    \/ NoMoreResults(s)
    \/ PageReceived(s)
    \/ SleepDone(s)

\* ------------------------------------------------------------------- main
\* Lines 173-184: main starts and calls fetchContractResults.
MainStart ==
    /\ mpc = "shell"
    /\ Call("results")
    /\ mpc' = "awaitResults"
    /\ UNCHANGED analyzerVars
    /\ UNCHANGED <<run, contractResults, transactions, allData, file, written, exitCode,
                   inflight, events, now, api>>

InboundReturned_NoAwait == cpc["results"] # "idle"

\* Line 184: `await fetchContractResults()` has its value.
InboundReturned == cpc["results"] = "returned"

\* Lines 184-185: the inbound collector has returned; the outbound one is called.
AwaitResults ==
    /\ mpc = "awaitResults"
    /\ InboundReturned
    /\ contractResults' = allResults
    /\ Call("transactions")
    /\ mpc' = "awaitTransactions"
    /\ UNCHANGED analyzerVars
    /\ UNCHANGED <<run, transactions, allData, file, written, exitCode, inflight, events,
                   now, api>>

AwaitTransactions_FlagsAbort ==
    /\ mpc = "awaitTransactions"
    /\ cpc["transactions"] = "returned"
    /\ transactions' = allTransactions
    /\ allData' =
         [Snapshot(contractResults, allTransactions, now) EXCEPT
            !.metadata.period =
                IF \E i \in 1..Len(events) :
                       /\ events[i][1] = "answer"
                       /\ events[i][3] \in {"neterr", "status", "badjson"}
                THEN "2025 (truncated)" ELSE "2025"]
    /\ mpc' = "write"
    /\ UNCHANGED analyzerVars
    /\ UNCHANGED <<run, cpc, url, pageCount, allResults, allTransactions,
                   contractResults, file, written, exitCode, inflight, events,
                   now, api>>

\* Lines 185-202: the outbound collector has returned; the snapshot object is built.
AwaitTransactions ==
    /\ mpc = "awaitTransactions"
    /\ cpc["transactions"] = "returned"
    /\ transactions' = allTransactions
    /\ allData' = Snapshot(contractResults, allTransactions, now)
    /\ mpc' = "write"
    /\ UNCHANGED analyzerVars
    /\ UNCHANGED <<run, cpc, url, pageCount, allResults, allTransactions,
                   contractResults, file, written, exitCode, inflight, events,
                   now, api>>

\* Lines 220-223: the catch block of main.
Fatal(what) ==
    /\ mpc' = "exited"
    /\ exitCode' = 1
    /\ Log(<<"fatal", "main", what>>)

WriteFile_BeforeOutbound ==
    /\ mpc \in {"awaitTransactions", "write"}
    /\ file' = [state |-> "complete",
                data |-> Snapshot(contractResults, allTransactions, now)]
    /\ written' = Append(written, file'.data)
    /\ mpc' = "report"
    /\ Log(<<"write", "main", FILENAME>>)
    /\ UNCHANGED analyzerVars
    /\ UNCHANGED <<run, cpc, url, pageCount, allResults, allTransactions,
                   contractResults, transactions, allData, exitCode, inflight,
                   now, api>>

\* Lines 206-207: fs.writeFileSync succeeds.
WriteFile ==
    /\ mpc = "write"
    /\ file' = [state |-> "complete", data |-> allData]
    /\ written' = Append(written, allData)
    /\ mpc' = "report"
    /\ Log(<<"write", "main", FILENAME>>)
    /\ UNCHANGED analyzerVars
    /\ UNCHANGED <<run, cpc, url, pageCount, allResults, allTransactions,
                   contractResults, transactions, allData, exitCode, inflight,
                   now, api>>

\* Lines 207, 220-223: fs.writeFileSync throws, before or after truncating the file.
WriteFileThrows ==
    /\ mpc = "write"
    /\ file' \in {file, [state |-> "truncated", data |-> NoData]}
    /\ Fatal("write")
    /\ UNCHANGED analyzerVars
    /\ UNCHANGED <<written, run, cpc, url, pageCount, allResults, allTransactions,
                   contractResults, transactions, allData, inflight, now, api>>

\* Lines 209-216: the success summary; main returns and the process ends.
ReportSuccess ==
    /\ mpc = "report"
    /\ mpc' = "exited"
    /\ exitCode' = 0
    /\ Log(<<"success", "main", FILENAME>>)
    /\ UNCHANGED analyzerVars
    /\ UNCHANGED <<run, cpc, url, pageCount, allResults, allTransactions,
                   contractResults, transactions, allData, file, written, inflight, now,
                   api>>

\* Lines 209-215, 220-223: fs.statSync throws after SUCCESS was printed.
StatThrows ==
    /\ mpc = "report"
    /\ mpc' = "exited"
    /\ exitCode' = 1
    /\ events' = events \o <<<<"success", "main", FILENAME>>, <<"fatal", "main", "stat">>>>
    /\ UNCHANGED analyzerVars
    /\ UNCHANGED <<run, cpc, url, pageCount, allResults, allTransactions,
                   contractResults, transactions, allData, file, written, inflight, now,
                   api>>

Main ==
    \/ MainStart
    \/ AwaitResults
    \/ AwaitTransactions
    \/ WriteFile
    \/ WriteFileThrows
    \/ ReportSuccess
    \/ StatThrows

\* The script is run again (README step 2): a new process, the same disk and
\* the same mirror node, later.
Rerun ==
    /\ mpc = "exited"
    /\ run = "first"
    /\ run' = "second"
    /\ mpc' = "shell"
    /\ cpc' = [s \in Streams |-> "idle"]
    /\ url' = [s \in Streams |-> NoUrl]
    /\ pageCount' = [s \in Streams |-> 0]
    /\ allResults' = <<>>
    /\ allTransactions' = <<>>
    /\ contractResults' = <<>>
    /\ transactions' = <<>>
    /\ allData' = NoData
    /\ exitCode' = 0
    /\ inflight' = {}
    /\ events' = <<>>
    /\ now' = now + 1
    /\ UNCHANGED analyzerVars
    /\ UNCHANGED <<file, written, api>>

Next ==
    \/ \E s \in Streams : Collector(s)
    \/ Main

Spec == Init /\ [][Next]_vars

\* One run in which the collectors' own steps are not put off for ever: the
\* timer of sleep(200) fires and the loop test that follows it is run.  Nothing
\* is assumed of the mirror node: a request may stay unanswered.
Fairness == \A s \in Streams : WF_vars(SleepDone(s)) /\ WF_vars(LoopExit(s))

SpecFair == Spec /\ Fairness

NextRerun ==
    \/ Next
    \/ Rerun

SpecRerun == Init /\ [][NextRerun]_vars

\* The request that failed in stream s, when the stream was aborted: the first
\* request on the chain of next links whose answer is a failure.
RECURSIVE FailedAt(_, _, _)
FailedAt(s, c, fuel) ==
    IF fuel = 0 \/ PageUrl(s, c) \notin DOMAIN api
    THEN NoUrl
    ELSE LET r == api[PageUrl(s, c)]
         IN  IF r.kind # "ok" THEN PageUrl(s, c)
             ELSE IF r.n >= 1 /\ r.links \in {"rel", "abs"}
                  THEN FailedAt(s, c + r.n, fuel - 1)
                  ELSE NoUrl

FailedUrls == {FailedAt(s, 0, MaxRequests + 1) : s \in Streams} \ {NoUrl}

\* The pages whose next link leads to a request that failed.
PagesBefore ==
    {u \in DOMAIN api :
        /\ api[u].kind = "ok"
        /\ api[u].n >= 1
        /\ api[u].links \in {"rel", "abs"}
        /\ ResolveNext(BodyNext(u, api[u])) \in FailedUrls}

\* A mirror node that serves what this one served and, where this one aborted
\* a stream, ends it normally instead: the request that failed is answered
\* with no item list ("nolist") or an empty one ("empty"), or the page before
\* it comes without a next link ("nolink"; when the first request is the one
\* that failed, it is answered with an empty list).
EndsNormally(end) ==
    [u \in DOMAIN api |->
        IF end = "nolink" /\ u \in PagesBefore
        THEN [api[u] EXCEPT !.links = "null"]
        ELSE IF u \in FailedUrls /\ (end # "nolink" \/ \E s \in Streams : u = FirstUrl(s))
        THEN [kind |-> "ok", n |-> IF end = "nolist" THEN -1 ELSE 0, links |-> "none"]
        ELSE api[u]]

\* The script is run a second time, against a mirror node that gives the pages
\* the first run got and ends normally where the first run was aborted.
RerunHealed ==
    /\ mpc = "exited"
    /\ run = "first"
    /\ FailedUrls # {}
    /\ run' = "healed"
    /\ \E end \in {"nolist", "empty", "nolink"} : api' = EndsNormally(end)
    /\ mpc' = "shell"
    /\ cpc' = [s \in Streams |-> "idle"]
    /\ url' = [s \in Streams |-> NoUrl]
    /\ pageCount' = [s \in Streams |-> 0]
    /\ allResults' = <<>>
    /\ allTransactions' = <<>>
    /\ contractResults' = <<>>
    /\ transactions' = <<>>
    /\ allData' = NoData
    /\ exitCode' = 0
    /\ inflight' = {}
    /\ events' = <<>>
    /\ now' = now + 1
    /\ UNCHANGED analyzerVars
    /\ UNCHANGED <<file, written>>

NextDegraded ==
    \/ Next
    \/ RerunHealed

SpecDegraded == Init /\ [][NextDegraded]_vars

\* ================================================================ claims
\* The pages of stream s the mirror node has served on the chain of next
\* links from the first URL, each as its cursor c and the answer r given: the
\* chain is followed while the page is a non-empty page with a next link.
RECURSIVE Walk(_, _, _)
Walk(s, c, fuel) ==
    IF fuel = 0 \/ PageUrl(s, c) \notin DOMAIN api
    THEN <<>>
    ELSE LET r == api[PageUrl(s, c)]
         IN  <<[c |-> c, r |-> r]>>
               \o (IF r.kind = "ok" /\ r.n >= 1 /\ r.links \in {"rel", "abs"}
                   THEN Walk(s, c + r.n, fuel - 1)
                   ELSE <<>>)

Chain(s) == Walk(s, 0, MaxRequests + 1)

\* The items of the first k pages of chain ch of stream s, in page order.
RECURSIVE ItemsOf(_, _, _)
ItemsOf(s, ch, k) ==
    IF k = 0
    THEN <<>>
    ELSE ItemsOf(s, ch, k - 1)
           \o (IF ch[k].r.n < 1 THEN <<>> ELSE Records(s, ch[k].c, ch[k].r.n))

\* The sum of the sizes of the first k pages of chain ch.
RECURSIVE SizesOf(_, _)
SizesOf(ch, k) ==
    IF k = 0 THEN 0
    ELSE SizesOf(ch, k - 1) + (IF ch[k].r.n < 1 THEN 0 ELSE ch[k].r.n)

NoDuplicates(seq) == \A i, j \in 1..Len(seq) : seq[i] = seq[j] => i = j

\* Every page of the chain is a non-empty page.
AllPagesNonEmpty(ch) ==
    \A i \in 1..Len(ch) : ch[i].r.kind = "ok" /\ ch[i].r.n >= 1

\* The chain ends in a non-empty page that carries no next link.
EndsWithoutNext(ch) ==
    /\ Len(ch) >= 1
    /\ ch[Len(ch)].r.kind = "ok"
    /\ ch[Len(ch)].r.n >= 1
    /\ ch[Len(ch)].r.links \in {"none", "null"}

\* C1 -- pagination completeness: when a collector has returned and the
\* mirror node served it only non-empty pages, each but the last with a
\* correct next link, the collector has asked for the whole chain down to the
\* page without a next link, and what it returns is the concatenation of those
\* pages in page order: as long as the sum of the page sizes, nothing
\* duplicated, nothing missing.
C1_PaginationComplete ==
    \A s \in Streams :
        cpc[s] = "returned" =>
            LET ch == Chain(s)
            IN  AllPagesNonEmpty(ch) =>
                    /\ EndsWithoutNext(ch)
                    /\ Acc(s) = ItemsOf(s, ch, Len(ch))
                    /\ Len(Acc(s)) = SizesOf(ch, Len(ch))
                    /\ NoDuplicates(Acc(s))

\* A collector has returned a chain of two pages, the last one shorter.
C1_Witness ==
    \E s \in Streams :
        /\ cpc[s] = "returned"
        /\ AllPagesNonEmpty(Chain(s))
        /\ Len(Chain(s)) = 2
        /\ Chain(s)[1].r.n = 2
        /\ Chain(s)[2].r.n = 1
        /\ Len(Acc(s)) = 3

\* The chain ends in a failed request (non-success status, fetch or json rejecting).
EndsInFailure(ch) ==
    /\ Len(ch) >= 1
    /\ ch[Len(ch)].r.kind \in {"neterr", "status", "badjson"}

\* The fatal errors main has reported in this run.
FatalCauses == {events[i][3] : i \in {j \in 1..Len(events) : events[j][1] = "fatal"}}

\* C2 -- partial failure: when the request for page k of a stream fails
\* (non-success status, network error, unparsable body) after pages 1..k-1
\* succeeded with items and next links, the collector returns exactly the items
\* of pages 1..k-1 in order (nothing when k = 1), and the failure does not
\* reach main: main's catch block runs only for its own write or stat.
C2_PartialFailure ==
    \A s \in Streams :
        cpc[s] = "returned" =>
            LET ch == Chain(s)
            IN  EndsInFailure(ch) =>
                    /\ Acc(s) = ItemsOf(s, ch, Len(ch) - 1)
                    /\ pageCount[s] = Len(ch)
                    /\ FatalCauses \subseteq {"write", "stat"}
                    /\ (mpc = "exited" /\ FatalCauses = {}) => exitCode = 0

\* A collector returned one page after its second request failed.
C2_Witness ==
    \E s \in Streams :
        /\ cpc[s] = "returned"
        /\ EndsInFailure(Chain(s))
        /\ Len(Chain(s)) = 2
        /\ Len(Acc(s)) >= 1
        /\ mpc = "exited"

\* The chain ends in a successful answer with no items (or no item list).
EndsInEmptyPage(ch) ==
    /\ Len(ch) >= 1
    /\ ch[Len(ch)].r.kind = "ok"
    /\ ch[Len(ch)].r.n < 1

\* The requests of stream s in this run, in order.
RequestsOf(s) ==
    SelectSeq(events, LAMBDA e : e[1] = "request" /\ e[2] = s)

\* C3 -- termination on an empty page: when a successful answer carries no
\* items, the collector returns what the earlier pages gave it and has asked
\* for nothing after the empty page, whether or not that page carried a next link.
C3_EmptyPageStops ==
    \A s \in Streams :
        cpc[s] \in {"loop", "sleep", "returned"} =>
            LET ch == Chain(s)
            IN  EndsInEmptyPage(ch) =>
                    /\ cpc[s] = "returned"
                    /\ Acc(s) = ItemsOf(s, ch, Len(ch) - 1)
                    /\ Len(RequestsOf(s)) = Len(ch)
                    /\ RequestsOf(s)[Len(ch)][3] = PageUrl(s, ch[Len(ch)].c)

\* A collector returned after an empty page that carried a next link, with the
\* items of the page before it.
C3_Witness ==
    \E s \in Streams :
        /\ cpc[s] = "returned"
        /\ EndsInEmptyPage(Chain(s))
        /\ Len(Chain(s)) = 2
        /\ Chain(s)[2].r.n = 0
        /\ Chain(s)[2].r.links = "rel"
        /\ Len(Acc(s)) >= 1

\* Whether event e of this run is of the given type.
IsEvent(i, type) == events[i][1] = type
Happened(type) == \E i \in 1..Len(events) : IsEvent(i, type)

\* C4 -- inter-request delay, as claimed: between any two requests of a run
\* the collector has slept, whatever the answer to the earlier one was and
\* also from the last inbound request to the first outbound one.
C4_DelayAfterEveryRequest ==
    \A i, j \in 1..Len(events) :
        (i < j /\ IsEvent(i, "request") /\ IsEvent(j, "request")) =>
            \E k \in (i + 1)..(j - 1) : IsEvent(k, "sleep")

\* The very first request of stream s failed: nothing was collected.
FirstRequestFailed(s) == Len(Chain(s)) = 1 /\ EndsInFailure(Chain(s))

\* The content of the snapshot for stream s, and its count in the metadata.
StreamIn(d, s) == IF s = "results" THEN d.contractResults ELSE d.transactions
CountIn(d, s) ==
    IF s = "results" THEN d.metadata.totalContractResults
    ELSE d.metadata.totalTransactions

\* C5 -- fatal stream failure, as claimed: when the first request of a stream
\* fails, main reports a fatal error, the process ends with a non-zero status
\* and no snapshot is written.
C5_FatalOnStreamFailure ==
    \A s \in Streams :
        (mpc = "exited" /\ FirstRequestFailed(s)) =>
            /\ FatalCauses # {}
            /\ exitCode # 0
            /\ written = <<>>

\* C5, amended -- when the first request of a stream fails, its collector
\* returns the empty sequence and main goes on: the failure raises no fatal
\* error, the snapshot is written with that stream empty and its count 0, and
\* the process ends with status 1 only when main's own write or stat throws
\* (and with status 0 otherwise).
C5_StreamFailureNotFatal ==
    \A s \in Streams :
        (cpc[s] = "returned" /\ FirstRequestFailed(s)) =>
            /\ Acc(s) = <<>>
            /\ FatalCauses \subseteq {"write", "stat"}
            /\ mpc = "exited" =>
                /\ exitCode = (IF FatalCauses = {} THEN 0 ELSE 1)
                /\ "write" \notin FatalCauses =>
                    /\ file.state = "complete"
                    /\ written = <<file.data>>
                    /\ StreamIn(file.data, s) = <<>>
                    /\ CountIn(file.data, s) = 0

\* The first inbound request failed and the run ended with status 0 and a
\* snapshot that holds the outbound items.
C5_Witness ==
    /\ mpc = "exited"
    /\ FirstRequestFailed("results")
    /\ exitCode = 0
    /\ file.state = "complete"
    /\ file.data.contractResults = <<>>
    /\ Len(file.data.transactions) >= 1

\* C6 -- snapshot consistency: the snapshot a run writes holds exactly what the
\* inbound collector returned as contractResults and what the outbound
\* collector returned as transactions, in the same order, and the two totals
\* of its metadata are the lengths of those sequences.
C6_SnapshotConsistent ==
    Happened("write") =>
        /\ file.state = "complete"
        /\ file.data = written[Len(written)]
        /\ file.data.contractResults = allResults
        /\ file.data.transactions = allTransactions
        /\ file.data.metadata.totalContractResults = Len(allResults)
        /\ file.data.metadata.totalTransactions = Len(allTransactions)

\* A snapshot was written with two inbound items and one outbound item.
C6_Witness ==
    /\ Happened("write")
    /\ Len(file.data.contractResults) = 2
    /\ Len(file.data.transactions) = 1

\* C7 -- strictly sequential requests: at most one request is outstanding, the
\* outbound collector is called (and so asks) only after the inbound collector
\* has returned, and nothing of the inbound stream happens after anything of
\* the outbound stream.
C7_Sequential ==
    /\ Cardinality(inflight) <= 1
    /\ \A q \in inflight : cpc[q[1]] = "fetch"
    /\ cpc["transactions"] # "idle" => cpc["results"] = "returned"
    /\ \A i, j \in 1..Len(events) :
        (i < j /\ events[i][2] = "transactions") => events[j][2] # "results"

\* The first outbound request is outstanding after the inbound collector
\* returned its items.
C7_Witness ==
    /\ inflight = {<<"transactions", FirstUrl("transactions")>>}
    /\ Len(contractResults) >= 1
    /\ Len(RequestsOf("results")) >= 1

\* The items of the pages of stream s that succeeded.
Succeeded(s) == ItemsOf(s, Chain(s), Len(Chain(s)))

\* C8 -- stream isolation: when a failure has aborted one stream, the other
\* stream's sequence is what its own successful pages gave, the outbound stream
\* is still collected after an inbound failure, and unless the write itself
\* throws the run writes a snapshot holding exactly the items of the pages that
\* succeeded in each stream.
C8_StreamIsolation ==
    \A s \in Streams :
        (cpc[s] = "returned" /\ EndsInFailure(Chain(s))) =>
            LET inbound == Succeeded("results")
                outbound == Succeeded("transactions")
            IN  /\ allResults = inbound
                /\ allTransactions = outbound
                /\ s = "transactions" => contractResults = inbound
                /\ mpc \in {"write", "report", "exited"} =>
                    /\ cpc["transactions"] = "returned"
                    /\ allData.contractResults = inbound
                    /\ allData.transactions = outbound
                /\ (mpc = "exited" /\ "write" \notin FatalCauses) =>
                    /\ file.state = "complete"
                    /\ file.data = allData

\* The outbound stream was aborted on its second page; the snapshot holds the
\* inbound page and the first outbound page.
C8_Witness ==
    /\ mpc = "exited"
    /\ EndsInFailure(Chain("transactions"))
    /\ Len(Chain("transactions")) = 2
    /\ file.state = "complete"
    /\ Len(file.data.contractResults) >= 1
    /\ Len(file.data.transactions) >= 1

\* C8, the other way round: the inbound stream was aborted at once and the
\* outbound stream was still collected into the snapshot.
C8_WitnessInbound ==
    /\ mpc = "exited"
    /\ FirstRequestFailed("results")
    /\ file.state = "complete"
    /\ Len(file.data.transactions) = 2

WithoutFetchedAt(d) == [d EXCEPT !.metadata.fetchedAt = 0]

\* C9 -- reproducibility: the snapshots written by two runs against a mirror
\* node that answers each URL the same way are equal in every field but
\* fetchedAt; the second run starts from nothing the first one left: each of
\* its collectors makes its first request to the same first URL with nothing
\* accumulated, whatever snapshot is on disk.
C9_Reproducible ==
    /\ Len(written) = 2 => WithoutFetchedAt(written[1]) = WithoutFetchedAt(written[2])
    /\ \A s \in Streams :
        (cpc[s] = "fetch" /\ pageCount[s] = 1) =>
            /\ Acc(s) = <<>>
            /\ inflight = {<<s, FirstUrl(s)>>}

\* Two runs wrote snapshots with items in both streams, at different times.
C9_Witness ==
    /\ Len(written) = 2
    /\ Len(written[2].contractResults) >= 1
    /\ Len(written[2].transactions) >= 1
    /\ written[1].metadata.fetchedAt # written[2].metadata.fetchedAt

\* Whether event i of this run is the answer that told collector s its request
\* had failed: a non-success status, or fetch or json() throwing.
IsFailedAnswer(i, s) ==
    /\ events[i][1] = "answer"
    /\ events[i][2] = s
    /\ events[i][3] \in {"neterr", "status", "badjson"}

IsRequest(i, s) == events[i][1] = "request" /\ events[i][2] = s

\* C12 -- no retry after a failure: once a request of a stream has come back
\* with a non-success status or has thrown, the collector of that stream has
\* returned and nothing later in the run is a request of that stream; the URL
\* that failed was asked once, and it is the last the stream asked.
C12_NoRetryAfterFailure ==
    \A s \in Streams :
        \A i \in 1..Len(events) :
            IsFailedAnswer(i, s) =>
                /\ cpc[s] = "returned"
                /\ \A j \in (i + 1)..Len(events) : ~IsRequest(j, s)
                /\ IsRequest(i - 1, s)
                /\ \A j \in 1..(i - 2) :
                       IsRequest(j, s) => events[j][3] # events[i - 1][3]

\* The second inbound request failed and the run went on to its end: the
\* outbound stream was asked and the snapshot written, with no inbound request
\* after the failure.
C12_Witness ==
    /\ mpc = "exited"
    /\ Len(RequestsOf("results")) = 2
    /\ Len(RequestsOf("transactions")) = 1
    /\ \E i \in 1..Len(events) : IsFailedAnswer(i, "results")
    /\ Happened("write")

\* The last answer the mirror node gave on the chain is one that ends the
\* loop: a failure, a successful answer without items, or a page of items
\* without a next link.
Terminal(ch) == EndsInFailure(ch) \/ EndsInEmptyPage(ch) \/ EndsWithoutNext(ch)

\* What collector s does next is ask for a page: it waits for an answer, sleeps
\* before the next request, or is at the loop test with a URL to ask.
NextIsRequest(s) ==
    \/ cpc[s] \in {"fetch", "sleep"}
    \/ cpc[s] = "loop" /\ url[s] # NoUrl

\* C13, the safety half -- a collector has returned only if one of its
\* requests got an answer that ends the loop; as long as every answer was a
\* page of items with a next link, however many there were, the collector has
\* not returned, its next step is one more request, and the run has written
\* no snapshot.
C13_ReturnsOnlyOnTerminalAnswer ==
    \A s \in Streams :
        LET ch == Chain(s)
        IN  /\ cpc[s] = "returned" => Terminal(ch)
            /\ (cpc[s] # "idle" /\ ~Terminal(ch)) =>
                   /\ NextIsRequest(s)
                   /\ pageCount[s] \in {Len(ch), Len(ch) + 1}
                   /\ written = <<>>
                   /\ ~Happened("write")

\* C13 -- collector termination: a collector returns if and only if one of
\* its requests is answered with a non-success status, an exception, no items,
\* or a page of items without a next link.  Once such an answer has come the
\* collector does return; without one it never has, it goes on asking page
\* after page, and the snapshot is not written.
C13_CollectorTermination ==
    /\ []C13_ReturnsOnlyOnTerminalAnswer
    /\ \A s \in Streams :
           (cpc[s] # "idle" /\ Terminal(Chain(s))) ~> (cpc[s] = "returned")

\* The mirror node has answered every inbound request, as many as the run may
\* issue, with a full page and a next link: the collector is at the loop test
\* with the next URL in hand, and nothing has been written.
C13_Witness ==
    /\ cpc["results"] = "loop"
    /\ url["results"] # NoUrl
    /\ pageCount["results"] = MaxRequests
    /\ Len(allResults) = MaxRequests * MaxPageLen
    /\ ~Terminal(Chain("results"))
    /\ mpc = "awaitResults"
    /\ written = <<>>

\* C14 -- no truncation marker: the snapshot of a run in which a stream was
\* aborted by a failure on page k+1 and the snapshot of a run against a mirror
\* node that serves the same first k pages and then ends normally are equal in
\* every field but fetchedAt.
C14_NoTruncationMarker ==
    (run = "healed" /\ Len(written) = 2) =>
        WithoutFetchedAt(written[1]) = WithoutFetchedAt(written[2])

\* Both runs wrote a snapshot: the first after its inbound stream was aborted
\* on its second page, the second after the same stream ended normally there;
\* both hold the items of the first page and differ in fetchedAt.
C14_Witness ==
    /\ run = "healed"
    /\ Len(written) = 2
    /\ Len(written[1].contractResults) >= 1
    /\ Len(written[2].contractResults) >= 1
    /\ Len(RequestsOf("results")) = 2
    /\ EndsInEmptyPage(Chain("results"))
    /\ written[1].metadata.fetchedAt # written[2].metadata.fetchedAt

\* C14, the other normal end: the second run's inbound stream ended on its
\* first page, which came without a next link, where the first run's was
\* aborted on the page after it.
C14_WitnessNoLink ==
    /\ run = "healed"
    /\ Len(written) = 2
    /\ Len(written[2].contractResults) >= 1
    /\ Len(RequestsOf("results")) = 1
    /\ EndsWithoutNext(Chain("results"))

\* The requests of collector s that have been answered so far.
AnsweredCount(s) == pageCount[s] - (IF cpc[s] = "fetch" THEN 1 ELSE 0)

\* C15, at every point -- the accumulated sequence of a collector is the
\* concatenation, in request order, of the items of the answers it has
\* received so far that were successful and had items.
C15_AccumulatedSoFar ==
    \A s \in Streams :
        LET ch == Chain(s)
        IN  /\ Len(ch) = AnsweredCount(s)
            /\ Acc(s) = ItemsOf(s, ch, AnsweredCount(s))

\* C15, at every step -- the accumulated sequence is left as it is, or the
\* whole list of items of the answer just received is appended at its end.
C15_AppendsWholePage ==
    \A s \in Streams :
        \/ Acc(s)' = Acc(s)
        \/ /\ cpc[s] = "fetch"
           /\ api'[url[s]].kind = "ok"
           /\ api'[url[s]].n >= 1
           /\ Acc(s)' = Acc(s) \o BodyItems(url[s], api'[url[s]])

\* C15 -- append-only accumulation: at every point of a collection loop the
\* accumulated sequence is the concatenation, in request order, of the items
\* of the successful, non-empty answers received so far, and each step leaves
\* it unchanged or appends one whole page at its end, so that every earlier
\* value is a prefix of every later one.
C15_AppendOnly ==
    /\ []C15_AccumulatedSoFar
    /\ [][C15_AppendsWholePage]_vars

\* The outbound collector has appended its second page to the first while
\* the inbound sequence, one page long, stayed as it was returned.
C15_Witness ==
    /\ cpc["transactions"] = "sleep"
    /\ pageCount["transactions"] = 2
    /\ Len(allTransactions) >= 3
    /\ Len(allResults) >= 1
    /\ allResults = contractResults

\* The next link of the answer the mirror node gave to URL u.
LinkOf(u) == BodyNext(u, api[u])

\* C16 -- cursor following: the first request of a stream goes to its first
\* URL; the URL of request n+1 is the next link of the answer to request n,
\* as it came when it begins with "http" and with the mirror host put before
\* it otherwise; and when an answer with items has no next link (absent or
\* null), the collector has appended the page, holds no URL and asks no more.
C16_CursorFollowing ==
    \A s \in Streams :
        LET rq == RequestsOf(s)
            ch == Chain(s)
        IN  /\ Len(rq) >= 1 => rq[1][3] = FirstUrl(s)
            /\ \A n \in 1..(Len(rq) - 1) :
                   LET link == LinkOf(rq[n][3])
                   IN  /\ link # NoUrl
                       /\ rq[n + 1][3] = IF link[1] = "http" THEN link
                                         ELSE MIRROR_HOST \o link
            /\ EndsWithoutNext(ch) =>
                   /\ cpc[s] \in {"sleep", "loop", "returned"}
                   /\ url[s] = NoUrl
                   /\ Len(rq) = Len(ch)
                   /\ Acc(s) = ItemsOf(s, ch, Len(ch))

\* The inbound collector followed an absolute next link from its first page
\* to a second one, which had items and a null next link, and returned both.
C16_Witness ==
    /\ cpc["results"] = "returned"
    /\ Len(RequestsOf("results")) = 2
    /\ api[FirstUrl("results")].links = "abs"
    /\ EndsWithoutNext(Chain("results"))
    /\ Chain("results")[2].r.links = "null"
    /\ Len(allResults) >= 2

\* C16, a relative link: the outbound collector asked for its second page at
\* the mirror host followed by the relative next link of the first.
C16_WitnessRelative ==
    /\ Len(RequestsOf("transactions")) = 2
    /\ api[FirstUrl("transactions")].links = "rel"
    /\ RequestsOf("transactions")[2][3]
         = MIRROR_HOST \o LinkOf(FirstUrl("transactions"))

\* What follows the parameter name `key` in URL u (nothing when u has no such
\* parameter).
ParamOf(u, key) ==
    IF \E i \in 1..(Len(u) - 1) : u[i] = key
    THEN u[1 + CHOOSE i \in 1..(Len(u) - 1) : u[i] = key]
    ELSE ""

\* The lower and the upper bound a request to u sends.
SentStart(u) == ParamOf(u, "timestamp=gte:")
SentEnd(u) == ParamOf(u, "&timestamp=lt:")

\* C17 -- window bounds pass-through: the first request of each stream sends
\* timestamp=gte:DATE_START and timestamp=lt:DATE_END and asks for ascending
\* order; both streams send the same two bounds; and the startTimestamp and
\* endTimestamp of the snapshot's metadata, when it is built and when it is
\* written, are the bounds that were sent.
C17_WindowPassThrough ==
    /\ \A s \in Streams :
           LET rq == RequestsOf(s)
           IN  Len(rq) >= 1 =>
                   /\ SentStart(rq[1][3]) = ToString(DATE_START)
                   /\ SentEnd(rq[1][3]) = ToString(DATE_END)
                   /\ rq[1][3][Len(rq[1][3])] = "&limit=100&order=asc"
                   /\ mpc \in {"write", "report", "exited"} =>
                          /\ ToString(allData.metadata.startTimestamp) = SentStart(rq[1][3])
                          /\ ToString(allData.metadata.endTimestamp) = SentEnd(rq[1][3])
    /\ \A i \in 1..Len(written) :
           /\ written[i].metadata.startTimestamp = DATE_START
           /\ written[i].metadata.endTimestamp = DATE_END

\* Both streams have made their first request and the snapshot is written.
C17_Witness ==
    /\ Happened("write")
    /\ Len(RequestsOf("results")) >= 1
    /\ Len(RequestsOf("transactions")) >= 1
    /\ SentStart(RequestsOf("results")[1][3]) = SentStart(RequestsOf("transactions")[1][3])
    /\ SentEnd(RequestsOf("results")[1][3]) = SentEnd(RequestsOf("transactions")[1][3])
    /\ file.state = "complete"
    /\ file.data.metadata.endTimestamp = DATE_END

\* The first answer stream s got was a successful one with an empty item list,
\* or with none.
FirstPageEmpty(s) == Len(Chain(s)) = 1 /\ EndsInEmptyPage(Chain(s))

\* C18 -- empty first page: when the first answer of a stream is successful
\* and has no items, the collector has returned the empty sequence after that
\* one request, no error is signalled for it (main's catch block runs only for
\* its own write or stat), and unless the write throws the run writes the
\* snapshot, with that stream empty and its count 0.
C18_EmptyFirstPage ==
    \A s \in Streams :
        (cpc[s] # "idle" /\ FirstPageEmpty(s)) =>
            /\ cpc[s] = "returned"
            /\ Acc(s) = <<>>
            /\ pageCount[s] = 1
            /\ Len(RequestsOf(s)) = 1
            /\ \A i \in 1..Len(events) : ~IsFailedAnswer(i, s)
            /\ FatalCauses \subseteq {"write", "stat"}
            /\ (mpc \in {"report", "exited"} /\ "write" \notin FatalCauses) =>
                   /\ file.state = "complete"
                   /\ written = <<file.data>>
                   /\ StreamIn(file.data, s) = <<>>
                   /\ CountIn(file.data, s) = 0
            /\ (mpc = "exited" /\ FatalCauses = {}) => exitCode = 0

\* The first outbound answer had no item list at all; the run ended with
\* status 0 and a snapshot that counts no transactions next to the inbound items.
C18_Witness ==
    /\ mpc = "exited"
    /\ exitCode = 0
    /\ FirstPageEmpty("transactions")
    /\ Chain("transactions")[1].r.n = -1
    /\ file.state = "complete"
    /\ file.data.metadata.totalTransactions = 0
    /\ file.data.metadata.totalContractResults >= 1

\* The positions in the run's log where the snapshot file was written, and
\* where writing it was tried and threw.
WritesAt == {i \in 1..Len(events) : IsEvent(i, "write")}
FailedWritesAt ==
    {i \in 1..Len(events) : IsEvent(i, "fatal") /\ events[i][3] = "write"}

\* C19 -- snapshot write ordering: in a run the snapshot file is written at
\* most once (and writing it is tried at most once); the file is touched only
\* when both collectors have returned, so every request, answer and sleep of
\* either stream comes before the write; and success is reported only after
\* the write.
C19_WriteOrdering ==
    /\ Cardinality(WritesAt \cup FailedWritesAt) <= 1
    /\ Len(written) = Cardinality(WritesAt)
    /\ (file # NoFile \/ written # <<>>) =>
           \A s \in Streams : cpc[s] = "returned" /\ inflight = {}
    /\ \A i \in WritesAt \cup FailedWritesAt :
           /\ \A j \in 1..Len(events) : events[j][2] \in Streams => j < i
           /\ \A s \in Streams : Len(RequestsOf(s)) >= 1
    /\ \A k \in 1..Len(events) :
           IsEvent(k, "success") => \E i \in WritesAt : i < k

\* A run has collected both streams, written the snapshot once and reported
\* success after it.
C19_Witness ==
    /\ mpc = "exited"
    /\ Cardinality(WritesAt) = 1
    /\ Happened("success")
    /\ Len(written) = 1
    /\ Len(written[1].contractResults) >= 1
    /\ Len(written[1].transactions) >= 1

\* C20 -- fatal orchestration failure, as claimed: when an exception was
\* raised in main (its catch block has run), the process has ended with
\* status 1 and the success summary was not reported.
C20_FatalWithoutSuccess ==
    (mpc = "exited" /\ FatalCauses # {}) =>
        /\ exitCode = 1
        /\ ~Happened("success")

\* The snapshot was written and SUCCESS printed; then statSync threw, and the
\* run ended with status 1.
C20_Witness ==
    /\ mpc = "exited"
    /\ exitCode = 1
    /\ FatalCauses = {"stat"}
    /\ Happened("success")
    /\ file.state = "complete"
    /\ written = <<file.data>>

\* ================================================================ Analyzer
\* 2_analyze_users.js, as section 4.3 describes it: it reads the snapshot,
\* takes the counterparty of every record of both streams, normalises it,
\* leaves out the contract in both of its forms and counts what remains.

\* A wallet in its native form, and another in address form, which appears in
\* the data in two spellings.
WALLET_NATIVE == "0.0.4567"
WALLET_EVM == "0x00000000000000000000000000000000000a11ce"
WALLET_EVM_MIXED == "0x00000000000000000000000000000000000A11cE"

\* No such field in the record.
Missing == ""

Identifiers ==
    {CONTRACT_ID, CONTRACT_EVM_ADDRESS, WALLET_NATIVE, WALLET_EVM, WALLET_EVM_MIXED}

\* An inbound record names its caller in `from`; an outbound record names the
\* contract as the payer and the counterparty in `to`.
InboundRecords == [from : Identifiers \cup {Missing}, to : {CONTRACT_EVM_ADDRESS}]
OutboundRecords == [from : {CONTRACT_ID}, to : Identifiers \cup {Missing}]

SeqsUpTo(S, n) == UNION {[1..k -> S] : k \in 0..n}

\* The one canonical textual form of an identifier: lower case.
Normalize(id) == IF id = WALLET_EVM_MIXED THEN WALLET_EVM ELSE id

ContractForms_NativeOnly == {Normalize(CONTRACT_ID)}

\* The contract in every form it is known by.
ContractForms == {Normalize(CONTRACT_ID), Normalize(CONTRACT_EVM_ADDRESS)}

Counterparty_Sender(stream, record) == record.from

\* The counterparty field of a record: the caller of an inbound record, the
\* recipient of an outbound one.
Counterparty(stream, record) ==
    IF stream = "results" THEN record.from ELSE record.to

\* One record is looked at: skipped when it has no counterparty, left out when
\* the counterparty is the contract, inserted in the set otherwise.
Extract(stream, record) ==
    LET id == Counterparty(stream, record)
    IN  /\ skipped' = IF id = Missing THEN skipped + 1 ELSE skipped
        /\ walletSet' = IF id = Missing \/ Normalize(id) \in ContractForms
                        THEN walletSet
                        ELSE walletSet \cup {Normalize(id)}

\* The Analyzer starts on a snapshot file.
AnalyzerStart ==
    /\ apc = "idle"
    /\ file.state = "complete"
    /\ apc' = "inbound"
    /\ UNCHANGED <<scanned, walletSet, skipped, walletReport>>
    /\ UNCHANGED fetcherVars

\* The loop over the inbound records.
ExtractInbound ==
    /\ apc = "inbound"
    /\ IF scanned < Len(file.data.contractResults)
       THEN /\ Extract("results", file.data.contractResults[scanned + 1])
            /\ scanned' = scanned + 1
            /\ apc' = apc
       ELSE /\ scanned' = 0
            /\ apc' = "outbound"
            /\ UNCHANGED <<walletSet, skipped>>
    /\ UNCHANGED walletReport
    /\ UNCHANGED fetcherVars

\* The loop over the outbound records.
ExtractOutbound ==
    /\ apc = "outbound"
    /\ IF scanned < Len(file.data.transactions)
       THEN /\ Extract("transactions", file.data.transactions[scanned + 1])
            /\ scanned' = scanned + 1
            /\ apc' = apc
       ELSE /\ scanned' = 0
            /\ apc' = "report"
            /\ UNCHANGED <<walletSet, skipped>>
    /\ UNCHANGED walletReport
    /\ UNCHANGED fetcherVars

\* The report and the wallet list are produced.
AnalyzerReport ==
    /\ apc = "report"
    /\ walletReport' = [uniqueWallets |-> Cardinality(walletSet),
                        inboundCalls |-> Len(file.data.contractResults),
                        outboundTxns |-> Len(file.data.transactions),
                        period |-> file.data.metadata.period,
                        wallets |-> walletSet]
    /\ apc' = "done"
    /\ UNCHANGED <<scanned, walletSet, skipped>>
    /\ UNCHANGED fetcherVars

\* The Analyzer is given a snapshot the Fetcher has written and left.
InitAnalyzer ==
    /\ AnalyzerIdle
    /\ run = "first"
    /\ mpc = "exited"
    /\ cpc = [s \in Streams |-> "returned"]
    /\ url = [s \in Streams |-> NoUrl]
    /\ pageCount = [s \in Streams |-> 0]
    /\ contractResults \in SeqsUpTo(InboundRecords, MaxRecords)
    /\ transactions \in SeqsUpTo(OutboundRecords, MaxRecords)
    /\ allResults = contractResults
    /\ allTransactions = transactions
    /\ allData = Snapshot(contractResults, transactions, 0)
    /\ file = [state |-> "complete", data |-> allData]
    /\ written = <<allData>>
    /\ exitCode = 0
    /\ inflight = {}
    /\ events = <<>>
    /\ now = 0
    /\ api = <<>>

NextAnalyzer ==
    \/ AnalyzerStart
    \/ ExtractInbound
    \/ ExtractOutbound
    \/ AnalyzerReport

SpecAnalyzer == InitAnalyzer /\ [][NextAnalyzer]_vars

\* The counterparties that appear in the snapshot, as they are spelt: the
\* callers of the inbound records and the recipients of the outbound ones.
Appearing ==
    ({file.data.contractResults[i].from : i \in 1..Len(file.data.contractResults)}
       \cup {file.data.transactions[i].to : i \in 1..Len(file.data.transactions)})
      \ {Missing}

\* The distinct identifiers, other than the contract's own, that appear as
\* counterparty in either stream of the snapshot.
DistinctWallets == {Normalize(id) : id \in Appearing} \ ContractForms

\* C10 -- dedup correctness: when the Analyzer is done with a snapshot of N
\* inbound and M outbound records in which K distinct identifiers other than
\* the contract's own appear as counterparty, however often and in whichever
\* stream, the unique-wallet count it reports is K, and K is at most N + M.
C10_DedupCount ==
    apc = "done" =>
        /\ walletReport.uniqueWallets = Cardinality(DistinctWallets)
        /\ walletReport.wallets = DistinctWallets
        /\ walletReport.uniqueWallets
             <= Len(file.data.contractResults) + Len(file.data.transactions)

\* The Analyzer reported two wallets for four records: one wallet repeated in
\* both streams, and the contract itself in the data.
C10_Witness ==
    /\ apc = "done"
    /\ walletReport.uniqueWallets = 2
    /\ Len(file.data.contractResults) = 2
    /\ Len(file.data.transactions) = 2
    /\ file.data.contractResults[1].from = WALLET_EVM
    /\ file.data.transactions[1].to = WALLET_EVM_MIXED
    /\ file.data.transactions[2].to = WALLET_NATIVE
    /\ file.data.contractResults[2].from = CONTRACT_ID
\* C11 -- exclusion correctness: at no point of the Analyzer's work on any
\* snapshot does the wallet set hold the contract's native id or its EVM
\* address, in whichever stream and in whichever of the two forms the contract
\* appears as counterparty; nor does the report's wallet list.
C11_ContractExcluded ==
    /\ walletSet \cap {CONTRACT_ID, CONTRACT_EVM_ADDRESS} = {}
    /\ walletReport.wallets \cap {CONTRACT_ID, CONTRACT_EVM_ADDRESS} = {}

\* The Analyzer is done with a snapshot in which the contract is the caller of
\* an inbound record in its native form and the recipient of an outbound
\* record in its address form, next to one wallet: the wallet alone is reported.
C11_Witness ==
    /\ apc = "done"
    /\ \E i \in 1..Len(file.data.contractResults) :
           file.data.contractResults[i].from = CONTRACT_ID
    /\ \E i \in 1..Len(file.data.transactions) :
           file.data.transactions[i].to = CONTRACT_EVM_ADDRESS
    /\ \E i \in 1..Len(file.data.contractResults) :
           file.data.contractResults[i].from = WALLET_NATIVE
    /\ walletReport.wallets = {WALLET_NATIVE}

====
